---- MODULE Spec2Model ----
(***************************************************************************)
(* recruiter_rm: the pipeline of src/recruiter_rm.py as a state machine.   *)
(*                                                                         *)
(* The mail store (source, done and sent folders), the SMTP server and the *)
(* text-completion API are the environment; every call to them either      *)
(* returns or raises, chosen nondeterministically.  A run is one process:  *)
(* main() from the pre-flight check to exit.  Runs follow one another on   *)
(* the same mail store; DRY_RUN and BYPASS_OPENAI are read from the        *)
(* environment anew by every process.                                      *)
(*                                                                         *)
(* Texts are sequences over a five-token alphabet:                         *)
(*   "{"  "}"   the brace characters                                       *)
(*   "m"        the members of a JSON object: "name": .., "company": ..    *)
(*   "t"        any other text without braces or line breaks               *)
(*   "\n"       a line break                                               *)
(***************************************************************************)
EXTENDS Integers, Sequences, FiniteSets, TLC

VARIABLES
    rawHeaders,     \* message -> header names as they stand in the stored message
    source,         \* MAILBOX_RECRUITMENT_FOLDER, in store order
    done,           \* MAILBOX_DONE_FOLDER
    sent,           \* MAILBOX_SENT_FOLDER: the message each appended reply answers
    outbox,         \* message -> replies to it transmitted over SMTP, all runs
    DRY_RUN,
    BYPASS_OPENAI,
    pc,             \* position of the process
    exitCode,       \* -1 while the process runs
    imap_mailbox,   \* "none", "refused", "open", "closed"
    smtp_mailbox,   \* "none", "refused", "open", "closed"
    emails,         \* respond_to_recruitment_emails: the fetched candidates
    index,          \* respond_to_recruitment_emails: loop position
    recruiter_email,\* send_response: the email of the latest call, 0 before any
    steps,          \* send_response: the steps the latest call has begun
    result,         \* message -> how send_response ended for it in this run:
                    \* "none", "ok", "failed" (raised before move_to_done),
                    \* "unmoved" (move_to_done raised), "aborted" (not caught)
    slept,          \* grace periods waited in this run
    apiCalls,       \* completion requests made in this run
    fetched,        \* get_recruiter_emails returned in this run
    run,            \* number of the current run
    before,         \* folders and outbox as the current run found them
    prev,           \* what the previous run did
    text,           \* a raw completion text
    parsed          \* what get_recruiter_name_and_company made of text

vars == <<rawHeaders, source, done, sent, outbox, DRY_RUN, BYPASS_OPENAI, pc,
          exitCode, imap_mailbox, smtp_mailbox, emails, index, recruiter_email,
          steps, result, slept, apiCalls, fetched, run, before, prev, text,
          parsed>>

mailVars == <<source, done, sent, outbox>>
flagVars == <<DRY_RUN, BYPASS_OPENAI>>
connVars == <<imap_mailbox, smtp_mailbox>>
callVars == <<recruiter_email, steps, result>>
histVars == <<rawHeaders, run, before, prev>>
parseVars == <<text, parsed>>

----------------------------------------------------------------------------
(* Bounds *)

NumMsgs == 2
MaxRuns == 2
MaxLen == 5

Msgs == 1..NumMsgs

----------------------------------------------------------------------------
(* Sequences *)

Range(s) == {s[k] : k \in 1..Len(s)}

Remove(s, x) == SelectSeq(s, LAMBDA y : y # x)

IsPrefix(s, t) == Len(s) <= Len(t) /\ SubSeq(t, 1, Len(s)) = s

SetMin(S) == CHOOSE x \in S : \A y \in S : x <= y
SetMax(S) == CHOOSE x \in S : \A y \in S : x >= y

----------------------------------------------------------------------------
(* Messages and their headers *)

HeaderChoices ==
    { {"Message-Id", "Subject"},
      {"Message-Id", "In-Reply-To"},
      {"message-id", "IN-REPLY-TO"},
      {"Subject"} }

\* str.lower on the header names that occur
Lower(h) ==
    CASE h = "Message-Id"  -> "message-id"
      [] h = "In-Reply-To" -> "in-reply-to"
      [] h = "IN-REPLY-TO" -> "in-reply-to"
      [] h = "Subject"     -> "subject"
      [] OTHER             -> h

\* MailMessage.headers: the header map, keyed by lower-cased header name
headers(m) == {Lower(h) : h \in rawHeaders[m]}

\* _is_reply comparing against the header name as it is written on the wire
_is_reply_exact(m) == "In-Reply-To" \in headers(m)

\* Mailer._is_reply
_is_reply(m) == "in-reply-to" \in {Lower(h) : h \in headers(m)}

\* the filter loop of Mailer.get_recruiter_emails over the fetched list
filtered_messages(all_recruiter_emails) ==
    SelectSeq(all_recruiter_emails, LAMBDA m : ~_is_reply(m))

----------------------------------------------------------------------------
(* Completion texts and their parsing *)

Alphabet == {"{", "}", "m", "t", "\n"}

Texts == UNION {[1..n -> Alphabet] : n \in 0..MaxLen}

\* the canned completions the pipeline draws from
Completions ==
    { <<"{", "m", "}">>,
      <<"t", "{", "m", "}", "t">>,
      <<"{", "}">>,
      <<"t">> }

APIError == <<"APIError">>

\* what "." matches
Dot(c) == c # "\n"

\* every way the pattern .*(\{.*\}) matches inside txt: <<s, i, j>> with the
\* match starting at s, the group's "{" at i and its "}" at j
Matches(txt) ==
    {w \in (1..Len(txt)) \X (1..Len(txt)) \X (1..Len(txt)) :
        /\ w[1] <= w[2]
        /\ w[2] < w[3]
        /\ txt[w[2]] = "{"
        /\ txt[w[3]] = "}"
        /\ \A k \in w[1]..w[3] : Dot(txt[k])}

\* the search with a lazy first .*?, which stops at the first "{"
re_search_lazy(txt) ==
    IF Matches(txt) = {} THEN <<0, 0>>
    ELSE LET s == SetMin({w[1] : w \in Matches(txt)})
             i == SetMin({w[2] : w \in {v \in Matches(txt) : v[1] = s}})
             j == SetMax({w[3] : w \in {v \in Matches(txt) : v[1] = s /\ v[2] = i}})
         IN  <<i, j>>

\* re.search(r".*(\{.*\})", txt): the leftmost start, then each .* greedy.
\* <<0, 0>> stands for None, otherwise the bounds of group 1.
re_search(txt) ==
    IF Matches(txt) = {} THEN <<0, 0>>
    ELSE LET s == SetMin({w[1] : w \in Matches(txt)})
             i == SetMax({w[2] : w \in {v \in Matches(txt) : v[1] = s}})
             j == SetMax({w[3] : w \in {v \in Matches(txt) : v[1] = s /\ v[2] = i}})
         IN  <<i, j>>

\* json.loads accepts the span
json_valid(span) == span = <<"{", "}">> \/ span = <<"{", "m", "}">>

\* the keys of the object json.loads returns
json_keys(span) == IF span = <<"{", "m", "}">> THEN {"name", "company"} ELSE {}

Returned(keys, i, j) == [raised |-> FALSE, exc |-> "", keys |-> keys, start |-> i, end |-> j]

Raised(exc) == [raised |-> TRUE, exc |-> exc, keys |-> {}, start |-> 0, end |-> 0]

NotCalled == [raised |-> FALSE, exc |-> "not called", keys |-> {}, start |-> 0, end |-> 0]

\* get_recruiter_name_and_company, given what Completion.create did
get_recruiter_name_and_company(bypass, completion) ==
    IF bypass THEN Returned({"name", "company"}, 0, 0)
    ELSE IF completion = APIError THEN Raised("APIError")
    ELSE LET g == re_search(completion) IN
         IF g = <<0, 0>> THEN Raised("AttributeError")
         ELSE IF ~json_valid(SubSeq(completion, g[1], g[2])) THEN Raised("JSONDecodeError")
         ELSE Returned(json_keys(SubSeq(completion, g[1], g[2])), g[1], g[2])

----------------------------------------------------------------------------
(* The state a process starts from *)

NoResult == [m \in Msgs |-> "none"]

NoPrev == [ran |-> FALSE, dry |-> FALSE, allOk |-> FALSE, failed |-> {}, candidates |-> {}]

Snapshot == [source |-> source, done |-> done, sent |-> sent, outbox |-> outbox]

\* a process before main: nothing connected, fetched or processed
Started ==
    /\ pc = "main"
    /\ exitCode = -1
    /\ imap_mailbox = "none"
    /\ smtp_mailbox = "none"
    /\ emails = <<>>
    /\ index = 1
    /\ recruiter_email = 0
    /\ steps = <<>>
    /\ result = NoResult
    /\ slept = 0
    /\ apiCalls = 0
    /\ fetched = FALSE

Init ==
    /\ rawHeaders \in [Msgs -> HeaderChoices]
    /\ source = [k \in Msgs |-> k]
    /\ done = <<>>
    /\ sent = <<>>
    /\ outbox = [m \in Msgs |-> 0]
    /\ DRY_RUN \in BOOLEAN
    /\ BYPASS_OPENAI \in BOOLEAN
    /\ Started
    /\ run = 1
    /\ before = [source |-> [k \in Msgs |-> k], done |-> <<>>, sent |-> <<>>,
                 outbox |-> [m \in Msgs |-> 0]]
    /\ prev = NoPrev
    /\ text = <<>>
    /\ parsed = NotCalled

----------------------------------------------------------------------------
(* main and Mailer *)

\* sys.exit, or an exception nothing catches
Exit(code) ==
    /\ pc' = "done"
    /\ exitCode' = code

\* the pre-flight check with "or" for "and"
main_or ==
    /\ pc = "main"
    /\ IF ~DRY_RUN \/ BYPASS_OPENAI
          THEN Exit(1)
          ELSE pc' = "Mailer" /\ UNCHANGED exitCode
    /\ UNCHANGED <<mailVars, flagVars, connVars, emails, index, fetched, callVars,
                   slept, apiCalls, histVars, parseVars>>

\* main, lines 226-239: the pre-flight check
main ==
    /\ pc = "main"
    /\ IF ~DRY_RUN /\ BYPASS_OPENAI
          THEN Exit(1)
          ELSE pc' = "Mailer" /\ UNCHANGED exitCode
    /\ UNCHANGED <<mailVars, flagVars, connVars, emails, index, fetched, callVars,
                   slept, apiCalls, histVars, parseVars>>

\* Mailer.__init__: the IMAP login, then the SMTP connection and login
Mailer_init ==
    /\ pc = "Mailer"
    /\ \/ /\ imap_mailbox' = "open"
          /\ smtp_mailbox' = "open"
          /\ pc' = "respond"
          /\ UNCHANGED exitCode
       \/ /\ imap_mailbox' = "refused"
          /\ UNCHANGED smtp_mailbox
          /\ Exit(1)
       \/ /\ imap_mailbox' = "open"
          /\ smtp_mailbox' = "refused"
          /\ Exit(1)
    /\ UNCHANGED <<mailVars, flagVars, emails, index, fetched, callVars, slept,
                   apiCalls, histVars, parseVars>>

\* Mailer.get_recruiter_emails, called at line 157
get_recruiter_emails ==
    /\ pc = "respond"
    /\ \/ /\ emails' = filtered_messages(source)
          /\ index' = 1
          /\ fetched' = TRUE
          /\ pc' = "loop"
          /\ UNCHANGED exitCode
       \/ /\ UNCHANGED <<emails, index, fetched>>
          /\ Exit(1)
    /\ UNCHANGED <<mailVars, flagVars, connVars, callVars, slept, apiCalls,
                   histVars, parseVars>>

\* respond_to_recruitment_emails, lines 161-163: send_response is called for
\* the next email, or the loop ends and the function returns
respond_to_recruitment_emails ==
    /\ pc = "loop"
    /\ steps' = <<>>
    /\ IF index <= Len(emails)
          THEN /\ recruiter_email' = emails[index]
               /\ pc' = "quote"
          ELSE /\ recruiter_email' = 0
               /\ pc' = "cleanup"
    /\ UNCHANGED <<mailVars, flagVars, connVars, exitCode, emails, index, fetched,
                   result, slept, apiCalls, histVars, parseVars>>

\* Mailer.cleanup, then the normal end of main
cleanup ==
    /\ pc = "cleanup"
    /\ smtp_mailbox' = "closed"
    /\ Exit(0)
    /\ UNCHANGED <<mailVars, flagVars, imap_mailbox, emails, index, fetched,
                   callVars, slept, apiCalls, histVars, parseVars>>

----------------------------------------------------------------------------
(* send_response(mailer, recruiter_email) *)

Step(new) == steps' = steps \o new

\* send_response returns to the loop, which goes on to the next email
Return(how) ==
    /\ result' = [result EXCEPT ![recruiter_email] = how]
    /\ index' = index + 1
    /\ pc' = "loop"
    /\ UNCHANGED recruiter_email

\* an except clause that files the message all the same
except_moves(how) ==
    /\ Return(how)
    /\ source' = Remove(source, recruiter_email)
    /\ done' = Append(done, recruiter_email)

\* lines 144-149: the except clause of send_response
except_Exception(how) ==
    /\ Return(how)
    /\ UNCHANGED <<source, done>>

\* lines 111-114: the original, quoted; these lines stand before the try
quote_original ==
    /\ pc = "quote"
    /\ Step(<<"quote">>)
    /\ \/ /\ pc' = "extract"
          /\ UNCHANGED <<result, exitCode>>
       \/ /\ result' = [result EXCEPT ![recruiter_email] = "aborted"]
          /\ Exit(1)
    /\ UNCHANGED <<mailVars, flagVars, connVars, emails, index, fetched,
                   recruiter_email, slept, apiCalls, histVars, parseVars>>

\* lines 117-119: the call of get_recruiter_name_and_company and the lookups
\* of "name" and "company" in what it returned
extract ==
    /\ pc = "extract"
    /\ Step(<<"extract">>)
    /\ apiCalls' = IF BYPASS_OPENAI THEN apiCalls ELSE apiCalls + 1
    /\ \E completion \in Completions \cup {APIError} :
          LET name_and_co == get_recruiter_name_and_company(BYPASS_OPENAI, completion) IN
          IF name_and_co.raised \/ ~({"name", "company"} \subseteq name_and_co.keys)
             THEN except_Exception("failed")
             ELSE /\ pc' = "compose"
                  /\ UNCHANGED <<result, index, recruiter_email, source, done>>
    /\ UNCHANGED <<sent, outbox, flagVars, connVars, exitCode, emails, fetched,
                   slept, histVars, parseVars>>

\* compose_and_send_mail without the DRY_RUN tests of lines 70 and 73
compose_and_send_mail_unguarded ==
    /\ pc = "compose"
    /\ IF "message-id" \notin headers(recruiter_email)
          THEN /\ Step(<<"compose">>)
               /\ except_Exception("failed")
               /\ UNCHANGED <<slept, outbox, sent>>
          ELSE /\ slept' = slept + 1
               /\ \/ /\ Step(<<"compose", "send", "sendmail">>)
                     /\ except_Exception("failed")
                     /\ UNCHANGED <<outbox, sent>>
                  \/ /\ Step(<<"compose", "send", "sendmail", "append">>)
                     /\ outbox' = [outbox EXCEPT ![recruiter_email] = @ + 1]
                     /\ \/ /\ sent' = Append(sent, recruiter_email)
                           /\ pc' = "sent"
                           /\ UNCHANGED <<result, index, recruiter_email, source, done>>
                        \/ /\ except_Exception("failed")
                           /\ UNCHANGED sent
    /\ UNCHANGED <<flagVars, connVars, exitCode, emails, fetched, apiCalls,
                   histVars, parseVars>>

\* lines 120-139, Mailer.compose_and_send_mail and Mailer.save_to_sent_folder:
\* the response body, the arguments of the call (the Message-Id lookup among
\* them), the grace period, the sendmail and the append to the sent folder
compose_and_send_mail ==
    /\ pc = "compose"
    /\ IF "message-id" \notin headers(recruiter_email)
          THEN /\ Step(<<"compose">>)
               /\ except_Exception("failed")
               /\ UNCHANGED <<slept, outbox, sent>>
          ELSE IF DRY_RUN
          THEN /\ Step(<<"compose", "send">>)
               /\ pc' = "sent"
               /\ UNCHANGED <<slept, outbox, sent, result, index, recruiter_email,
                              source, done>>
          ELSE /\ slept' = slept + 1
               /\ \/ /\ Step(<<"compose", "send", "sendmail">>)
                     /\ except_Exception("failed")
                     /\ UNCHANGED <<outbox, sent>>
                  \/ /\ Step(<<"compose", "send", "sendmail", "append">>)
                     /\ outbox' = [outbox EXCEPT ![recruiter_email] = @ + 1]
                     /\ \/ /\ sent' = Append(sent, recruiter_email)
                           /\ pc' = "sent"
                           /\ UNCHANGED <<result, index, recruiter_email, source, done>>
                        \/ /\ except_Exception("failed")
                           /\ UNCHANGED sent
    /\ UNCHANGED <<flagVars, connVars, exitCode, emails, fetched, apiCalls,
                   histVars, parseVars>>

\* the move without the DRY_RUN test of line 141
move_to_done_unguarded ==
    /\ pc = "sent"
    /\ Step(<<"move">>)
    /\ \/ /\ source' = Remove(source, recruiter_email)
          /\ done' = Append(done, recruiter_email)
          /\ Return("ok")
       \/ except_Exception("unmoved")
    /\ UNCHANGED <<sent, outbox, flagVars, connVars, exitCode, emails, fetched,
                   slept, apiCalls, histVars, parseVars>>

\* send_response without lines 141-142
move_to_done_skipped ==
    /\ pc = "sent"
    /\ Return("ok")
    /\ UNCHANGED <<mailVars, steps, flagVars, connVars, exitCode, emails, fetched,
                   slept, apiCalls, histVars, parseVars>>

\* lines 141-142 and Mailer.move_to_done
move_to_done ==
    /\ pc = "sent"
    /\ IF DRY_RUN
          THEN /\ Return("ok")
               /\ UNCHANGED <<steps, source, done>>
          ELSE /\ Step(<<"move">>)
               /\ \/ /\ source' = Remove(source, recruiter_email)
                     /\ done' = Append(done, recruiter_email)
                     /\ Return("ok")
                  \/ except_Exception("unmoved")
    /\ UNCHANGED <<sent, outbox, flagVars, connVars, exitCode, emails, fetched,
                   slept, apiCalls, histVars, parseVars>>

----------------------------------------------------------------------------
(* The next process on the same mail store *)

\* the messages for which extraction, composition or the send raised
FailedBeforeMove == {m \in Msgs : result[m] = "failed"}

next_run ==
    /\ pc = "done"
    /\ run < MaxRuns
    /\ run' = run + 1
    /\ DRY_RUN' \in BOOLEAN
    /\ BYPASS_OPENAI' \in BOOLEAN
    /\ pc' = "main"
    /\ exitCode' = -1
    /\ imap_mailbox' = "none"
    /\ smtp_mailbox' = "none"
    /\ emails' = <<>>
    /\ index' = 1
    /\ recruiter_email' = 0
    /\ steps' = <<>>
    /\ result' = NoResult
    /\ slept' = 0
    /\ apiCalls' = 0
    /\ fetched' = FALSE
    /\ before' = Snapshot
    /\ prev' = [ran |-> TRUE,
                dry |-> DRY_RUN,
                allOk |-> /\ fetched
                          /\ exitCode = 0
                          /\ \A m \in Range(emails) : result[m] = "ok",
                failed |-> FailedBeforeMove,
                candidates |-> Range(emails)]
    /\ UNCHANGED <<rawHeaders, mailVars, parseVars>>

Next ==
    \/ main
    \/ Mailer_init
    \/ get_recruiter_emails
    \/ respond_to_recruitment_emails
    \/ quote_original
    \/ extract
    \/ compose_and_send_mail
    \/ move_to_done
    \/ cleanup
    \/ next_run

Spec == Init /\ [][Next]_vars

----------------------------------------------------------------------------
(* get_recruiter_name_and_company on every completion text *)

InitParse ==
    /\ rawHeaders = [m \in Msgs |-> {"Message-Id", "Subject"}]
    /\ source = <<>>
    /\ done = <<>>
    /\ sent = <<>>
    /\ outbox = [m \in Msgs |-> 0]
    /\ DRY_RUN = TRUE
    /\ BYPASS_OPENAI \in BOOLEAN
    /\ pc = "parse"
    /\ exitCode = -1
    /\ imap_mailbox = "none"
    /\ smtp_mailbox = "none"
    /\ emails = <<>>
    /\ index = 1
    /\ recruiter_email = 0
    /\ steps = <<>>
    /\ result = NoResult
    /\ slept = 0
    /\ apiCalls = 0
    /\ fetched = FALSE
    /\ run = 1
    /\ before = [source |-> <<>>, done |-> <<>>, sent |-> <<>>,
                 outbox |-> [m \in Msgs |-> 0]]
    /\ prev = NoPrev
    /\ text \in Texts
    /\ parsed = NotCalled

\* lines 197-220 on the completion text
parse_completion ==
    /\ pc = "parse"
    /\ parsed' = get_recruiter_name_and_company(BYPASS_OPENAI, text)
    /\ pc' = "parsed"
    /\ UNCHANGED <<mailVars, flagVars, connVars, exitCode, emails, index, fetched,
                   callVars, slept, apiCalls, histVars, text>>

SpecParse == InitParse /\ [][parse_completion]_vars

----------------------------------------------------------------------------
(* Properties *)

Count(s, x) == Cardinality({k \in 1..Len(s) : s[k] = x})

\* the stored message carries an In-Reply-To header, however it is cased
HasInReplyTo(m) == rawHeaders[m] \cap {"In-Reply-To", "IN-REPLY-TO", "in-reply-to"} # {}

\* a reply to m went out over SMTP in this run
Transmitted(m) == outbox[m] > before.outbox[m]

\* the steps of send_response on one message, in program order
FullOrder == <<"quote", "extract", "compose", "send", "sendmail", "append", "move">>

BothOpened == imap_mailbox \in {"open", "closed"} /\ smtp_mailbox \in {"open", "closed"}

Conflict == ~DRY_RUN /\ BYPASS_OPENAI

\* C1: in a live run, once send_response has returned for a message whose
\* reply went out over SMTP in that run (and so too when the run has ended),
\* the message has left the source folder and entered the done folder once,
\* whatever the sent-folder append and the move did.
C1_RepliedIsMovedOnce ==
    ~DRY_RUN =>
        \A m \in Msgs :
            (Transmitted(m) /\ (result[m] # "none" \/ pc = "done")) =>
                /\ m \notin Range(source)
                /\ Count(done, m) = Count(before.done, m) + 1

\* C2: a message whose extraction, composition or send raised is not moved in
\* that run: move_to_done is not called for it, it is still in the source
\* folder, and the next run's fetch returns it as a candidate again.
C2_FailedStaysForRetry ==
    /\ \A m \in FailedBeforeMove :
          /\ m = recruiter_email => "move" \notin Range(steps)
          /\ m \in Range(source)
          /\ Count(done, m) = Count(before.done, m)
    /\ fetched => \A m \in prev.failed : m \in Range(emails)

C2_Witness ==
    /\ fetched
    /\ prev.failed # {}
    /\ ~BYPASS_OPENAI
    /\ recruiter_email \in FailedBeforeMove
    /\ steps = <<"quote", "extract">>

\* C3: the steps on a message happen in the order extract, compose, send, move,
\* and move_to_done is called only in a live run after compose_and_send_mail
\* transmitted the reply and returned (the sent copy appended).
C3_MoveOnlyAfterSend ==
    /\ IsPrefix(steps, FullOrder)
    /\ "move" \in Range(steps) =>
          /\ ~DRY_RUN
          /\ outbox[recruiter_email] = before.outbox[recruiter_email] + 1
          /\ Count(sent, recruiter_email) = Count(before.sent, recruiter_email) + 1
    /\ \A m \in Msgs :
          Count(done, m) > Count(before.done, m) =>
              /\ ~DRY_RUN
              /\ result[m] = "ok"
              /\ Transmitted(m)
              /\ Count(sent, m) = Count(before.sent, m) + 1

C3_Witness ==
    /\ "move" \in Range(steps)
    /\ result[recruiter_email] = "ok"
    /\ recruiter_email \in Range(done)

\* C4: whatever fails while one candidate is processed, the run attempts every
\* fetched candidate and ends with exit code 0.
C4_BatchNeverAborts ==
    (pc = "done" /\ fetched) =>
        /\ exitCode = 0
        /\ \A m \in Range(emails) : result[m] # "none"

\* C5: a dry run sends nothing over SMTP, appends nothing to the sent folder,
\* moves nothing, waits no grace period, and leaves the source, done and sent
\* folders as it found them.
C5_DryRunChangesNothing ==
    DRY_RUN =>
        /\ Snapshot = before
        /\ slept = 0
        /\ Range(steps) \cap {"sendmail", "append", "move"} = {}

C5_Witness ==
    /\ DRY_RUN
    /\ pc = "done"
    /\ exitCode = 0
    /\ before.done # <<>>
    /\ \E m \in Msgs : result[m] = "ok"

\* C6: with bypass on and dry-run off main exits with code 1 having opened no
\* connection, called no API, fetched, sent and moved nothing; with any other
\* flags the process goes on to open its connections.
C6_Preflight ==
    /\ Conflict =>
          /\ pc \in {"main", "done"}
          /\ pc = "done" => exitCode = 1
          /\ imap_mailbox = "none"
          /\ smtp_mailbox = "none"
          /\ apiCalls = 0
          /\ ~fetched
          /\ recruiter_email = 0
          /\ steps = <<>>
          /\ result = NoResult
          /\ Snapshot = before
    /\ ~Conflict =>
          (pc \notin {"main", "Mailer"} => imap_mailbox # "none")

C6_Witness == Conflict /\ pc = "done" /\ run = 2 /\ before.done # <<>>

\* C7: the fetched candidates are exactly the messages of the source folder
\* without an In-Reply-To header in any casing, in store order, and no message
\* with such a header is processed or replied to.
C7_CandidatesAreNonReplies ==
    /\ fetched => emails = SelectSeq(before.source, LAMBDA m : ~HasInReplyTo(m))
    /\ \A m \in Msgs :
          HasInReplyTo(m) => (outbox[m] = 0 /\ result[m] = "none" /\ recruiter_email # m)

C7_Witness ==
    /\ fetched
    /\ \E m \in Range(source) : "IN-REPLY-TO" \in rawHeaders[m]
    /\ \E m \in Range(emails) : outbox[m] > 0

SecondRunIdle ==
    /\ fetched => emails = <<>>
    /\ outbox = before.outbox
    /\ done = before.done

\* C8 as stated: after a run in which every candidate was processed without
\* error, the next run fetches no candidate, sends nothing and moves nothing.
C8_SecondRunIdle == (prev.ran /\ prev.allOk) => SecondRunIdle

\* C8: after a live run (DRY_RUN off) in which every candidate was processed
\* without error, the next run fetches no candidate, sends nothing and moves
\* nothing.
C8_SecondRunIdleAfterLive == (prev.ran /\ ~prev.dry /\ prev.allOk) => SecondRunIdle

C8_Witness ==
    /\ prev.ran
    /\ ~prev.dry
    /\ prev.allOk
    /\ prev.candidates # {}
    /\ fetched
    /\ pc = "done"

\* C9: when a process that opened both connections has ended, the IMAP and the
\* SMTP connection have both been closed.
C9_ConnectionsClosed ==
    (pc = "done" /\ BothOpened) =>
        (imap_mailbox = "closed" /\ smtp_mailbox = "closed")

Depth(txt, i, k) ==
    Cardinality({p \in i..k : txt[p] = "{"}) - Cardinality({p \in i..k : txt[p] = "}"})

Balanced(txt, i, j) ==
    /\ i < j
    /\ txt[i] = "{"
    /\ txt[j] = "}"
    /\ Depth(txt, i, j) = 0
    /\ \A k \in i..(j - 1) : Depth(txt, i, k) > 0

BalancedSpans(txt) ==
    {w \in (1..Len(txt)) \X (1..Len(txt)) : Balanced(txt, w[1], w[2])}

FirstSpan(txt) ==
    CHOOSE w \in BalancedSpans(txt) : \A v \in BalancedSpans(txt) : w[1] <= v[1]

SameLine(txt, p, q) ==
    \A k \in 1..Len(txt) : ((p <= k /\ k <= q) \/ (q <= k /\ k <= p)) => txt[k] # "\n"

LineSpans(txt) ==
    {w \in (1..Len(txt)) \X (1..Len(txt)) :
        /\ w[1] < w[2]
        /\ txt[w[1]] = "{"
        /\ txt[w[2]] = "}"
        /\ SameLine(txt, w[1], w[2])}

LastSpanOfFirstLine(txt) ==
    LET first == SetMin({w[2] : w \in LineSpans(txt)})
        i == SetMax({w[1] : w \in {v \in LineSpans(txt) : SameLine(txt, v[1], first)}})
        j == SetMax({q \in 1..Len(txt) : txt[q] = "}" /\ SameLine(txt, q, first)})
    IN  <<i, j>>

ParseOf(txt, w) ==
    IF json_valid(SubSeq(txt, w[1], w[2]))
       THEN Returned(json_keys(SubSeq(txt, w[1], w[2])), w[1], w[2])
       ELSE Raised("JSONDecodeError")

SameOutcome(a, b) == a.raised = b.raised /\ (~a.raised => a = b)

====
